---- MODULE Spec2Model ----
(***************************************************************************)
(* The daily-brief job of oalhait/presi-briefing: an HTTP handler that     *)
(* fans out to three RSS feeds, a market-data collector and a Product Hunt *)
(* collector, joins them, sends one prompt to the OpenAI API and e-mails   *)
(* the generated brief through the Resend API.                             *)
(*                                                                         *)
(* The repository holds three variants of the handler:                     *)
(*   variant 1  src/unnamed/part_000 lines 1-202                           *)
(*   variant 2  src/unnamed/part_000 lines 204-455                         *)
(*   variant 3  src/pages/api/daily-brief.ts                               *)
(*                                                                         *)
(* JavaScript values are modelled as follows.  A value that may be         *)
(* undefined/null is a sequence of length 0 (undefined) or 1.  Strings are *)
(* TLA+ strings and template literals are \o concatenations.  A JS number  *)
(* is the exact rational [k |-> "fin", n |-> num, d |-> den] (den > 0), or *)
(* one of NaN, Infinity, -Infinity.  The result of a try block is          *)
(* [throws |-> TRUE] or [throws |-> FALSE, value |-> v].                   *)
(***************************************************************************)
EXTENDS Integers, Sequences, FiniteSets, TLC

VARIABLES
    variant,       \* which of the three handler files runs
    method,        \* req.method
    hpc,           \* position of handler(): idle, building, summarizing, sending, done
    status,        \* <<>> until res.status(n) is called, then <<n>>
    resBody,       \* the keys of the JSON object passed to .json(..), {} before
    responses,     \* number of res.status(..).json(..) calls
    feedPc,        \* per feed: "idle", "fetching", "done", "rejected"
    feedResp,      \* per feed: <<>> or <<the HTTP outcome the fetch saw>>
    feedItems,     \* per feed: the value fetchAndParseRSS resolved with
    phPc,          \* fetchProductHuntPosts: "idle", "fetching", "done", "rejected"
    phResp,        \* <<>> or <<the HTTP outcome>>
    phResult,      \* the string fetchProductHuntPosts resolved with
    mPc,           \* fetchMarketData: 0 idle, 1..3 awaiting that fetch, 4 returned, 5 rejected
    mResps,        \* the HTTP outcomes fetchMarketData has seen, in order
    mResult,       \* the string fetchMarketData resolved with
    prompt,        \* <<>> or <<the prompt handed to openai.chat.completions.create>>
    completion,    \* <<>> or <<the outcome of the OpenAI call>>
    brief,         \* <<>> or <<the string buildBrief returned>>
    emailReq,      \* the requests sent to api.resend.com, in order
    emailResp,     \* <<>> or <<the outcome of the Resend call>>
    calls,         \* outgoing calls made so far, per external service
    call           \* the last direct call of a collector function: <<>> or <<[fn, v, in, out]>>

vars == <<variant, method, hpc, status, resBody, responses, feedPc, feedResp, feedItems,
          phPc, phResp, phResult, mPc, mResps, mResult, prompt, completion,
          brief, emailReq, emailResp, calls, call>>

pipelineVars == <<variant, method, hpc, status, resBody, responses, feedPc, feedResp,
                  feedItems, phPc, phResp, phResult, mPc, mResps, mResult,
                  prompt, completion, brief, emailReq, emailResp, calls>>

(***************************************************************************)
(* Bounds of the model.                                                    *)
(***************************************************************************)
MaxItems == 2      \* longest item list of an enumerated feed document
MaxEdges == 2      \* longest edge list of an enumerated Product Hunt reply
MaxDates == 3      \* dated observations of an enumerated time series
MaxChoices == 1    \* longest choices array of an enumerated completion
MaxLong == 12      \* longest feed (it exceeds the 10 items buildBrief keeps)

(***************************************************************************)
(* Generic helpers.                                                        *)
(***************************************************************************)
Undefined == <<>>
Some(x) == <<x>>
Throw == [throws |-> TRUE]
Return(v) == [throws |-> FALSE, value |-> v]

Variants == {1, 2, 3}
Feeds == {"ai", "yc", "world"}

RECURSIVE Join(_, _)
\* Array.prototype.join: the elements separated by sep.
Join(lines, sep) ==
    IF Len(lines) = 0 THEN ""
    ELSE IF Len(lines) = 1 THEN lines[1]
    ELSE lines[1] \o sep \o Join(Tail(lines), sep)

\* Array.prototype.slice(0, n)
SliceFirst(s, n) == SubSeq(s, 1, IF Len(s) < n THEN Len(s) ELSE n)

\* a || b on an optional string: b when a is undefined or the empty string
OrElse(a, b) == IF a = Undefined \/ a[1] = "" THEN b ELSE a[1]

\* x?.[0] on an optional array
First(arr) == IF Len(arr) = 0 THEN Undefined ELSE Some(arr[1])

(***************************************************************************)
(* Feed Fetcher: fetchAndParseRSS.                                         *)
(*                                                                         *)
(* A feed item is the xml2js record of one <item>: each field is the array *)
(* of its text values, or undefined (<<>>) when the element is missing.    *)
(* An HTTP outcome of the feed fetch is                                    *)
(*   [net |-> "error"]                the fetch promise rejects            *)
(*   [net |-> "ok", ok, body, items]  a response; ok is response.ok, body  *)
(*                                    says what its text parses to.        *)
(***************************************************************************)
FieldVals(present) == {Undefined, <<"">>, <<present>>}

Items ==
    [title : FieldVals("T"), link : FieldVals("L"), description : FieldVals("D")]

ItemLists == UNION {[1..n -> Items] : n \in 0..MaxItems}

\* "malformed": parseStringPromise rejects; "empty": it resolves to null;
\* "nonrss": a document whose root is not <rss>; "nochannel": <rss> without
\* <channel>; "noitems": a channel without <item>; "items": a channel with items.
RssBodies == {"malformed", "empty", "nonrss", "nochannel", "noitems", "items"}

RssResponses ==
    {[net |-> "error"]}
    \cup {[net |-> "ok", ok |-> o, body |-> b, items |-> <<>>] :
             o \in BOOLEAN, b \in RssBodies \ {"items"}}
    \cup {[net |-> "ok", ok |-> o, body |-> "items", items |-> l] :
             o \in BOOLEAN, l \in ItemLists \ {<<>>}}

\* The try block of fetchAndParseRSS.
rssTry(resp) ==
    IF resp.net = "error" THEN Throw                     \* await fetch(url)
    ELSE IF resp.body = "malformed" THEN Throw           \* parseStringPromise
    ELSE IF resp.body = "empty" THEN Throw               \* null.rss
    ELSE IF resp.body = "items" THEN Return(resp.items)
    ELSE Return(<<>>)                                    \* ... || []

fetchAndParseRSS(resp) ==
    LET r == rssTry(resp)
    IN  IF r.throws THEN Return(<<>>) ELSE r

(***************************************************************************)
(* Rendering of feed items inside buildBrief.                              *)
(***************************************************************************)
TopN == 10

NoTitle == "No title"
NoLink == "No link"
NoDescription == "No description"

\* Mutant of renderItem: ?? in place of ||, so an empty string is kept.
renderItemNullish(v, item) ==
    LET or(a, b) == IF a = Undefined THEN b ELSE a[1]
    IN  IF v = 1
        THEN or(First(item.title), NoTitle) \o " - "
                \o or(First(item.description), NoDescription)
        ELSE or(First(item.title), NoTitle) \o " ("
                \o or(First(item.link), NoLink) \o ") - "
                \o or(First(item.description), NoDescription)

renderItem(v, item) ==
    IF v = 1
    THEN OrElse(First(item.title), NoTitle) \o " - "
            \o OrElse(First(item.description), NoDescription)
    ELSE OrElse(First(item.title), NoTitle) \o " ("
            \o OrElse(First(item.link), NoLink) \o ") - "
            \o OrElse(First(item.description), NoDescription)

\* Mutant of summaryLines: slice(0, 11), one item too many.
summaryLinesOneMore(v, items) ==
    LET top == SliceFirst(items, TopN + 1)
    IN  [i \in 1..Len(top) |-> renderItem(v, top[i])]

\* feed.slice(0, 10).map(render)
summaryLines(v, items) ==
    LET top == SliceFirst(items, TopN)
    IN  [i \in 1..Len(top) |-> renderItem(v, top[i])]

\* feed.slice(0, 10).map(render).join("\n")
feedSummary(v, items) == Join(summaryLines(v, items), "\n")

\* Feeds longer than the enumerated documents: the feed of n items whose
\* i-th item carries its rank in its title, with a missing link on every
\* third item and an empty description on every fourth.
LongItem(i) ==
    [title |-> <<"T" \o ToString(i)>>,
     link |-> IF i % 3 = 0 THEN Undefined ELSE <<"L" \o ToString(i)>>,
     description |-> IF i % 4 = 0 THEN <<"">> ELSE <<"D" \o ToString(i)>>]

LongLists ==
    UNION {{[i \in 1..n |-> LongItem(IF asc THEN i ELSE n + 1 - i)] :
               asc \in BOOLEAN} : n \in 0..MaxLong}

(***************************************************************************)
(* JavaScript numbers, as far as fetchMarketData uses them.                *)
(***************************************************************************)
Fin(n, d) == [k |-> "fin", n |-> n, d |-> d]
NaN == [k |-> "NaN"]
PosInf == [k |-> "Infinity"]
NegInf == [k |-> "-Infinity"]

\* parseFloat on the close strings the model enumerates and on undefined
parseFloat(raw) ==
    IF raw = Undefined THEN NaN
    ELSE CASE raw[1] = "0.0000" -> Fin(0, 1)
           [] raw[1] = "100.0000" -> Fin(100, 1)
           [] raw[1] = "110.0000" -> Fin(110, 1)
           [] OTHER -> NaN

\* a - b
NumSub(a, b) ==
    IF a.k = "fin" /\ b.k = "fin" THEN Fin(a.n * b.d - b.n * a.d, a.d * b.d)
    ELSE NaN

\* a / b, IEEE 754: x/0 is an infinity of the sign of x, 0/0 is NaN
NumDiv(a, b) ==
    IF a.k # "fin" \/ b.k # "fin" THEN NaN
    ELSE IF b.n = 0
         THEN IF a.n > 0 THEN PosInf ELSE IF a.n < 0 THEN NegInf ELSE NaN
    ELSE IF b.n > 0 THEN Fin(a.n * b.d, a.d * b.n)
    ELSE Fin(-(a.n * b.d), a.d * (-b.n))

\* a * 100
NumTimes100(a) == IF a.k = "fin" THEN Fin(a.n * 100, a.d) ELSE a

Pad2(n) == IF n < 10 THEN "0" \o ToString(n) ELSE ToString(n)

\* Number.prototype.toFixed(2): two decimals, ties away from zero; the
\* non-finite values print as their names.  (The value rounded is the exact
\* quotient, not its nearest double.)
toFixed2(x) ==
    IF x.k # "fin" THEN x.k
    ELSE LET mag == IF x.n < 0 THEN -x.n ELSE x.n
             h == (2 * 100 * mag + x.d) \div (2 * x.d)
         IN  (IF x.n < 0 THEN "-" ELSE "")
                \o ToString(h \div 100) \o "." \o Pad2(h % 100)

(***************************************************************************)
(* Market Data Collector, variant 3 (daily-brief.ts): two TIME_SERIES_DAILY*)
(* fetches (SPY, QQQ) in a loop, then one CoinGecko fetch.                 *)
(*                                                                         *)
(* A time series is the JSON object "Time Series (Daily)" in the order the *)
(* provider wrote its keys: a sequence of [date, close], date the rank of  *)
(* the ISO date string (ISO dates sort as text the way they sort in time), *)
(* close the optional "4. close" string.                                   *)
(***************************************************************************)
MarketUnavailable == "Market data unavailable"

RawCloses == {Undefined, <<"0.0000">>, <<"100.0000">>, <<"110.0000">>}

\* The series of n observations, keys ascending or descending.  The closes
\* of the two most recent dates range over RawCloses; every older
\* observation closes at "0.0000".
SeriesOf(n) ==
    LET close(c, d) == IF d > n - 2 THEN c[n + 1 - d] ELSE <<"0.0000">>
        entry(c, d) == [date |-> d, close |-> close(c, d)]
        recent == IF n < 2 THEN n ELSE 2
    IN  UNION {{[i \in 1..n |-> entry(c, IF asc THEN i ELSE n + 1 - i)] :
                   c \in [1..recent -> RawCloses]} : asc \in BOOLEAN}

TimeSeries == UNION {SeriesOf(n) : n \in 0..MaxDates}

\* body: "notjson" (response.json() rejects), "noseries" (a JSON object
\* without "Time Series (Daily)": the provider's error and rate-limit
\* payloads), "series"
AvResponses ==
    {[net |-> "error"]}
    \cup {[net |-> "ok", ok |-> o, body |-> b, series |-> <<>>] :
             o \in BOOLEAN, b \in {"notjson", "noseries"}}
    \cup {[net |-> "ok", ok |-> o, body |-> "series", series |-> ts] :
             o \in BOOLEAN, ts \in TimeSeries}

\* Object.keys(timeSeries).sort().slice(-2)
lastTwoDates(series) ==
    LET keys == [i \in 1..Len(series) |-> series[i].date]
        sorted == SortSeq(keys, LAMBDA a, b : a < b)
    IN  IF Len(sorted) <= 2 THEN sorted
        ELSE SubSeq(sorted, Len(sorted) - 1, Len(sorted))

\* timeSeries[date]["4. close"]
closeAt(series, date) ==
    series[CHOOSE i \in 1..Len(series) : series[i].date = date].close

\* One iteration of the loop over symbols: the quote of one symbol, or a throw.
avQuote(resp) ==
    IF resp.net = "error" THEN Throw                       \* await fetch(url)
    ELSE IF ~resp.ok THEN Throw                            \* !response.ok
    ELSE IF resp.body = "notjson" THEN Throw               \* response.json()
    ELSE IF resp.body = "noseries" THEN Throw              \* !timeSeries
    ELSE LET dates == lastTwoDates(resp.series)
         IN  IF Len(dates) < 2 THEN Throw
             ELSE LET latestClose == parseFloat(closeAt(resp.series, dates[2]))
                      previousClose == parseFloat(closeAt(resp.series, dates[1]))
                      change == NumSub(latestClose, previousClose)
                      changePercent == NumTimes100(NumDiv(change, previousClose))
                  IN  Return([price |-> latestClose,
                              changePercent |-> toFixed2(changePercent)])

\* The CoinGecko reply: body "notjson", "nobitcoin" (no "bitcoin" key) or
\* "bitcoin" with optional numbers usd and usd_24h_change.
CgPrices == {Undefined, <<Fin(50000, 1)>>}
CgChanges == {Undefined, <<Fin(5, 4)>>, <<Fin(-1, 8)>>}

CgResponses ==
    {[net |-> "error"]}
    \cup {[net |-> "ok", ok |-> o, body |-> b, usd |-> Undefined, change |-> Undefined] :
             o \in BOOLEAN, b \in {"notjson", "nobitcoin"}}
    \cup {[net |-> "ok", ok |-> o, body |-> "bitcoin", usd |-> u, change |-> c] :
             o \in BOOLEAN, u \in CgPrices, c \in CgChanges}

cgQuote(resp) ==
    IF resp.net = "error" THEN Throw
    ELSE IF ~resp.ok THEN Throw
    ELSE IF resp.body = "notjson" THEN Throw
    ELSE IF resp.body = "nobitcoin" THEN Throw             \* !btcData
    ELSE IF resp.change = Undefined THEN Throw             \* undefined.toFixed
    ELSE IF resp.usd = Undefined THEN Throw                \* btcPrice.toFixed
    ELSE Return([price |-> resp.usd[1], changePercent |-> toFixed2(resp.change[1])])

snapshot3(spy, qqq, btc) ==
    "Market snapshot: S&P 500 (via SPY): $" \o toFixed2(spy.price)
        \o " (" \o spy.changePercent \o "%), Nasdaq (via QQQ): $"
        \o toFixed2(qqq.price) \o " (" \o qqq.changePercent
        \o "%), Bitcoin: $" \o toFixed2(btc.price) \o " (" \o btc.changePercent \o "%)"

(***************************************************************************)
(* Market Data Collector, variants 1 and 2: three Alpha Vantage fetches    *)
(* (GLOBAL_QUOTE twice, CURRENCY_EXCHANGE_RATE), each only .json()-parsed, *)
(* then every field read with ?. and || "N/A".                             *)
(*                                                                         *)
(* body: "notjson"; "noquote" (a JSON object without the quote object:     *)
(* the provider's error payloads); "quote" with the optional strings price *)
(* ("05. price", or "5. Exchange Rate" for bitcoin) and change             *)
(* ("10. change percent").                                                 *)
(***************************************************************************)
NA == "N/A"

GqResponses ==
    {[net |-> "error"]}
    \cup {[net |-> "ok", ok |-> o, body |-> b, price |-> Undefined, change |-> Undefined] :
             o \in BOOLEAN, b \in {"notjson", "noquote"}}
    \cup {[net |-> "ok", ok |-> o, body |-> "quote", price |-> p, change |-> c] :
             o \in BOOLEAN, p \in {Undefined, <<"5000.00">>},
             c \in {Undefined, <<"1.25%">>}}

\* await fetch(url).then((res) => res.json())
gqFetch(resp) ==
    IF resp.net = "error" THEN Throw
    ELSE IF resp.body = "notjson" THEN Throw
    ELSE Return(resp)

snapshot12(sp500, nasdaq, bitcoin) ==
    "Market snapshot: S&P 500: " \o OrElse(sp500.price, NA)
        \o " (" \o OrElse(sp500.change, NA) \o "), Nasdaq: "
        \o OrElse(nasdaq.price, NA) \o " (" \o OrElse(nasdaq.change, NA)
        \o "), Bitcoin: $" \o OrElse(bitcoin.price, NA)

(***************************************************************************)
(* fetchMarketData as a whole.  Its fetches are sequential, so what it     *)
(* consumes is a prefix of the provider's replies: it stops at the first   *)
(* reply that makes the try block throw.                                   *)
(***************************************************************************)
MarketResponses(v, i) ==
    IF v = 3 THEN (IF i = 3 THEN CgResponses ELSE AvResponses) ELSE GqResponses

\* what the i-th awaited fetch of the try block yields
marketStep(v, i, resp) ==
    IF v = 3 THEN (IF i = 3 THEN cgQuote(resp) ELSE avQuote(resp)) ELSE gqFetch(resp)

\* the string built once all three fetches went through
marketSnapshot(v, q) ==
    IF v = 3 THEN snapshot3(q[1], q[2], q[3]) ELSE snapshot12(q[1], q[2], q[3])

\* the replies consumed: resps is <<r1>>, <<r1, r2>> or <<r1, r2, r3>>
fetchMarketData(v, resps) ==
    LET q == [i \in 1..Len(resps) |-> marketStep(v, i, resps[i])]
    IN  IF \E i \in 1..Len(resps) : q[i].throws
        THEN Return(MarketUnavailable)                     \* catch
        ELSE Return(marketSnapshot(v, [i \in 1..3 |-> q[i].value]))

\* the reply sequences fetchMarketData can consume
MarketInputs(v) ==
    LET Good(i) == {r \in MarketResponses(v, i) : ~marketStep(v, i, r).throws}
        Bad(i) == {r \in MarketResponses(v, i) : marketStep(v, i, r).throws}
    IN  {<<r1>> : r1 \in Bad(1)}
        \cup {<<r1, r2>> : r1 \in Good(1), r2 \in Bad(2)}
        \cup {<<r1, r2, r3>> : r1 \in Good(1), r2 \in Good(2), r3 \in MarketResponses(v, 3)}

(***************************************************************************)
(* Auxiliary Listing Fetcher: fetchProductHuntPosts (variants 2 and 3).    *)
(*                                                                         *)
(* body: "notjson" (response.json() rejects), "errors" (a JSON object with *)
(* a truthy errors field), "nodata" (neither errors nor data.posts),       *)
(* "posts" (data.posts.edges is the list edges).                           *)
(***************************************************************************)
PhUnavailable == "Product Hunt data unavailable"

PhNodes ==
    {[name |-> "Alpha", url |-> "https://ph/alpha", tagline |-> "First", votesCount |-> 7],
     [name |-> "Beta", url |-> "https://ph/beta", tagline |-> "Second", votesCount |-> 3]}

PhEdgeLists == UNION {[1..n -> PhNodes] : n \in 0..MaxEdges}

PhResponses ==
    {[net |-> "error"]}
    \cup {[net |-> "ok", ok |-> o, body |-> b, edges |-> <<>>] :
             o \in BOOLEAN, b \in {"notjson", "errors", "nodata"}}
    \cup {[net |-> "ok", ok |-> o, body |-> "posts", edges |-> e] :
             o \in BOOLEAN, e \in PhEdgeLists}

renderNode(node) ==
    node.name \o " (" \o node.url \o ") - " \o node.tagline
        \o " (Votes: " \o ToString(node.votesCount) \o ")"

\* The try block of fetchProductHuntPosts.
phTry(resp) ==
    IF resp.net = "error" THEN Throw                       \* await fetch(...)
    ELSE IF resp.body = "notjson" THEN Throw               \* response.json()
    ELSE IF resp.body = "errors" THEN Throw                \* if (data.errors)
    ELSE IF resp.body = "nodata" THEN Throw                \* data.data.posts
    ELSE Return(Join([i \in 1..Len(resp.edges) |-> renderNode(resp.edges[i])], "\n"))

fetchProductHuntPosts(resp) ==
    LET r == phTry(resp)
    IN  IF r.throws THEN Return(PhUnavailable) ELSE r

(***************************************************************************)
(* Aggregator and Summarizer: buildBrief.                                  *)
(***************************************************************************)
HasProductHunt(v) == v # 1

\* The sections interpolated into the prompt template.  HACKER NEWS reuses
\* ycSummary; variant 1 has neither PRODUCT HUNT nor HACKER NEWS.
buildPrompt(v, ai, yc, world, ph, market) ==
    [ai |-> feedSummary(v, ai),
     yc |-> feedSummary(v, yc),
     world |-> feedSummary(v, world),
     ph |-> IF HasProductHunt(v) THEN Some(ph) ELSE Undefined,
     hn |-> IF HasProductHunt(v) THEN Some(feedSummary(v, yc)) ELSE Undefined,
     markets |-> market]

FailedToGenerate == "Failed to generate brief"

\* message.content of a choice: null (<<>>), "" or a document
Contents == {Undefined, <<"">>, <<"<h2>Brief</h2>">>}

\* The outcome of openai.chat.completions.create: the call rejects, or it
\* resolves to a completion whose choices carry message.content.
Completions ==
    {[rejects |-> TRUE, choices |-> <<>>]}
    \cup {[rejects |-> FALSE, choices |-> c] :
             c \in UNION {[1..n -> Contents] : n \in 0..MaxChoices}}

\* Mutant of summarize: the catch returns the fallback instead of rethrowing.
summarizeSwallow(c) ==
    IF c.rejects \/ Len(c.choices) = 0 THEN Return(FailedToGenerate)
    ELSE Return(OrElse(c.choices[1], FailedToGenerate))

\* What buildBrief does with the outcome: its catch rethrows.
summarize(c) ==
    IF c.rejects THEN Throw
    ELSE IF Len(c.choices) = 0 THEN Throw                  \* undefined.message
    ELSE Return(OrElse(c.choices[1], FailedToGenerate))

(***************************************************************************)
(* Notifier: sendEmail.                                                    *)
(***************************************************************************)
\* new Date().toLocaleDateString("en-US") on the day of the run
Today == "11/3/2026"

PreOpen ==
    "<pre style=\"font-family: monospace; white-space: pre-wrap; font-size: 14px;\">"

\* JSON.stringify({...}) of the request; variant 1 also sends text and
\* wraps the body in <pre>.  (The dash of the subject is written "-".)
emailRequest(v, body) ==
    IF v = 1
    THEN [subject |-> "Your Daily AI & Markets Brief - " \o Today,
          text |-> Some(body),
          html |-> PreOpen \o body \o "</pre>"]
    ELSE [subject |-> "Your Daily Brief - " \o Today, text |-> Undefined, html |-> body]

\* The outcome of the fetch to api.resend.com: ok is response.ok, json says
\* whether the body parses as JSON, error whether that JSON carries an error
\* field.
EmailResponses ==
    {[net |-> "error"]}
    \cup {[net |-> "ok", ok |-> o, json |-> FALSE, error |-> FALSE] : o \in BOOLEAN}
    \cup {[net |-> "ok", ok |-> o, json |-> TRUE, error |-> e] :
             o \in BOOLEAN, e \in BOOLEAN}

\* Mutant of sendEmail: the !response.ok check is missing.
sendEmailUnchecked(resp) ==
    IF resp.net = "error" THEN Throw
    ELSE Return(TRUE)

\* sendEmail: its catch rethrows.
sendEmail(resp) ==
    IF resp.net = "error" THEN Throw                       \* await fetch(...)
    ELSE IF ~resp.ok THEN Throw                            \* !response.ok
    ELSE Return(TRUE)

(***************************************************************************)
(* The replies the external services give in a run of the whole handler:   *)
(* a few of each kind, so that the five concurrent collectors can be       *)
(* interleaved exhaustively.                                               *)
(***************************************************************************)
FullItem == [title |-> <<"T">>, link |-> <<"L">>, description |-> <<"D">>]

RunRssResponses ==
    {r \in RssResponses :
        \/ r.net = "error"
        \/ r.net = "ok" /\ ~r.ok /\ r.body = "nonrss"
        \/ r.net = "ok" /\ r.ok /\ r.body = "items" /\ r.items = <<FullItem>>}

RunPhResponses ==
    {r \in PhResponses :
        \/ r.net = "error"
        \/ r.net = "ok" /\ r.ok /\ r.body = "errors"
        \/ r.net = "ok" /\ r.ok /\ r.body = "posts" /\ Len(r.edges) = 1
              /\ r.edges[1].name = "Alpha"}

RisingSeries ==
    <<[date |-> 1, close |-> <<"100.0000">>], [date |-> 2, close |-> <<"110.0000">>]>>

RunMarketResponses(v, i) ==
    {r \in MarketResponses(v, i) :
        \/ r.net = "error" /\ i < 3
        \/ r.net = "ok" /\ ~r.ok /\ r.body \in {"nobitcoin", "noquote"} /\ i = 3
        \/ r.net = "ok" /\ r.ok /\ r.body = "series" /\ r.series = RisingSeries
        \/ r.net = "ok" /\ r.ok /\ r.body = "bitcoin"
              /\ r.usd # Undefined /\ r.change = <<Fin(5, 4)>>
        \/ r.net = "ok" /\ r.ok /\ r.body = "quote"
              /\ r.price # Undefined /\ r.change # Undefined}

Methods == {"POST", "GET", "PUT"}

\* Mutant of MethodAllowed: the method check lets GET through.
MethodAllowedGet(m) == m \in {"POST", "GET"}

\* req.method !== "POST"
MethodAllowed(m) == m = "POST"

NoCalls == [feed |-> 0, market |-> 0, ph |-> 0, openai |-> 0, email |-> 0]

(***************************************************************************)
(* The handler.  Every action is one run-to-the-next-await segment of the  *)
(* code.  Awaits that only hand a task-local value on (response.text(),    *)
(* response.json(), parseStringPromise) are folded into the segment of the *)
(* fetch they follow.                                                      *)
(***************************************************************************)
Init ==
    /\ variant \in Variants
    /\ method \in Methods
    /\ hpc = "idle"
    /\ status = <<>>
    /\ resBody = {}
    /\ responses = 0
    /\ feedPc = [f \in Feeds |-> "idle"]
    /\ feedResp = [f \in Feeds |-> <<>>]
    /\ feedItems = [f \in Feeds |-> <<>>]
    /\ phPc = "idle"
    /\ phResp = <<>>
    /\ phResult = ""
    /\ mPc = 0
    /\ mResps = <<>>
    /\ mResult = ""
    /\ prompt = <<>>
    /\ completion = <<>>
    /\ brief = <<>>
    /\ emailReq = <<>>
    /\ emailResp = <<>>
    /\ calls = NoCalls
    /\ call = <<>>

\* the keys of the object each res.status(n).json({...}) sends
ResponseKeys(n) ==
    CASE n = 200 -> {"success", "message", "timestamp"}
      [] n = 405 -> {"error"}
      [] n = 500 -> {"error", "details"}

\* res.status(n).json(...)
Respond(n) ==
    /\ status' = <<n>>
    /\ resBody' = ResponseKeys(n)
    /\ responses' = responses + 1
    /\ hpc' = "done"

\* if (req.method !== "POST") return res.status(405)...
HandlerReject ==
    /\ hpc = "idle"
    /\ ~MethodAllowed(method)
    /\ Respond(405)
    /\ UNCHANGED <<variant, method, feedPc, feedResp, feedItems, phPc, phResp,
                   phResult, mPc, mResps, mResult, prompt, completion, brief,
                   emailReq, emailResp, calls, call>>

\* handler calls buildBrief, whose Promise.all([...]) argument calls every
\* collector: each runs up to its first await, that is, issues its first fetch.
HandlerStart ==
    /\ hpc = "idle"
    /\ MethodAllowed(method)
    /\ hpc' = "building"
    /\ feedPc' = [f \in Feeds |-> "fetching"]
    /\ phPc' = IF HasProductHunt(variant) THEN "fetching" ELSE "idle"
    /\ mPc' = 1
    /\ calls' = [calls EXCEPT !.feed = @ + 3,
                              !.ph = IF HasProductHunt(variant) THEN @ + 1 ELSE @,
                              !.market = @ + 1]
    /\ UNCHANGED <<variant, method, status, resBody, responses, feedResp, feedItems,
                   phResp, phResult, mResps, mResult, prompt, completion, brief,
                   emailReq, emailResp, call>>

\* One feed's fetch settles and fetchAndParseRSS runs to its return.
FeedSettle(f) ==
    /\ feedPc[f] = "fetching"
    /\ \E resp \in RunRssResponses :
          LET r == fetchAndParseRSS(resp)
          IN  /\ feedResp' = [feedResp EXCEPT ![f] = <<resp>>]
              /\ feedPc' = [feedPc EXCEPT ![f] = IF r.throws THEN "rejected" ELSE "done"]
              /\ feedItems' = [feedItems EXCEPT ![f] = IF r.throws THEN @ ELSE r.value]
    /\ UNCHANGED <<variant, method, hpc, status, resBody, responses, phPc, phResp, phResult,
                   mPc, mResps, mResult, prompt, completion, brief, emailReq,
                   emailResp, calls, call>>

\* The Product Hunt fetch settles and fetchProductHuntPosts runs to its return.
PhSettle ==
    /\ phPc = "fetching"
    /\ \E resp \in RunPhResponses :
          LET r == fetchProductHuntPosts(resp)
          IN  /\ phResp' = <<resp>>
              /\ phPc' = IF r.throws THEN "rejected" ELSE "done"
              /\ phResult' = IF r.throws THEN phResult ELSE r.value
    /\ UNCHANGED <<variant, method, hpc, status, resBody, responses, feedPc, feedResp,
                   feedItems, mPc, mResps, mResult, prompt, completion, brief,
                   emailReq, emailResp, calls, call>>

\* The fetch fetchMarketData awaits settles: the function either goes on to
\* its next fetch or, on a throw or after the third reply, returns.
MarketSettle ==
    /\ mPc \in 1..3
    /\ \E resp \in RunMarketResponses(variant, mPc) :
          LET seen == Append(mResps, resp)
              goesOn == ~marketStep(variant, mPc, resp).throws /\ mPc < 3
              r == fetchMarketData(variant, seen)
          IN  /\ mResps' = seen
              /\ IF goesOn
                 THEN /\ mPc' = mPc + 1
                      /\ calls' = [calls EXCEPT !.market = @ + 1]
                      /\ UNCHANGED mResult
                 ELSE /\ mPc' = IF r.throws THEN 5 ELSE 4
                      /\ mResult' = IF r.throws THEN mResult ELSE r.value
                      /\ UNCHANGED calls
    /\ UNCHANGED <<variant, method, hpc, status, resBody, responses, feedPc, feedResp,
                   feedItems, phPc, phResp, phResult, prompt, completion, brief,
                   emailReq, emailResp, call>>

AnyRejected ==
    \/ \E f \in Feeds : feedPc[f] = "rejected"
    \/ phPc = "rejected"
    \/ mPc = 5

\* Mutant of AllFulfilled: the join does not wait for fetchMarketData.
AllFulfilledButMarket ==
    /\ \A f \in Feeds : feedPc[f] = "done"
    /\ HasProductHunt(variant) => phPc = "done"

AllFulfilled ==
    /\ \A f \in Feeds : feedPc[f] = "done"
    /\ HasProductHunt(variant) => phPc = "done"
    /\ mPc = 4

\* await Promise.all([...]) resumes: on a rejection buildBrief's catch
\* rethrows into the handler's catch; otherwise the prompt is built and
\* openai.chat.completions.create is called.
PromiseAll ==
    /\ hpc = "building"
    /\ AnyRejected \/ AllFulfilled
    /\ IF AnyRejected
       THEN /\ Respond(500)
            /\ UNCHANGED <<prompt, calls>>
       ELSE /\ prompt' = <<buildPrompt(variant, feedItems["ai"], feedItems["yc"],
                                       feedItems["world"], phResult, mResult)>>
            /\ calls' = [calls EXCEPT !.openai = @ + 1]
            /\ hpc' = "summarizing"
            /\ UNCHANGED <<status, resBody, responses>>
    /\ UNCHANGED <<variant, method, feedPc, feedResp, feedItems, phPc, phResp,
                   phResult, mPc, mResps, mResult, completion, brief, emailReq,
                   emailResp, call>>

\* The OpenAI call settles: buildBrief returns or throws; on a return the
\* handler calls sendEmail, which issues its fetch.
OpenAISettle ==
    /\ hpc = "summarizing"
    /\ \E c \in Completions :
          LET r == summarize(c)
          IN  /\ completion' = <<c>>
              /\ IF r.throws
                 THEN /\ Respond(500)
                      /\ UNCHANGED <<brief, emailReq, calls>>
                 ELSE /\ brief' = <<r.value>>
                      /\ emailReq' = Append(emailReq, emailRequest(variant, r.value))
                      /\ calls' = [calls EXCEPT !.email = @ + 1]
                      /\ hpc' = "sending"
                      /\ UNCHANGED <<status, resBody, responses>>
    /\ UNCHANGED <<variant, method, feedPc, feedResp, feedItems, phPc, phResp,
                   phResult, mPc, mResps, mResult, prompt, emailResp, call>>

\* The Resend fetch settles: sendEmail returns or throws, and the handler
\* answers 200 or, from its catch, 500.
EmailSettle ==
    /\ hpc = "sending"
    /\ \E resp \in EmailResponses :
          /\ emailResp' = <<resp>>
          /\ IF sendEmail(resp).throws THEN Respond(500) ELSE Respond(200)
    /\ UNCHANGED <<variant, method, feedPc, feedResp, feedItems, phPc, phResp,
                   phResult, mPc, mResps, mResult, prompt, completion, brief,
                   emailReq, calls, call>>

Next ==
    \/ HandlerReject
    \/ HandlerStart
    \/ \E f \in Feeds : FeedSettle(f)
    \/ PhSettle
    \/ MarketSettle
    \/ PromiseAll
    \/ OpenAISettle
    \/ EmailSettle

Spec == Init /\ [][Next]_vars

\* Every awaited call settles and the event loop resumes a continuation
\* that is ready: while some step of the invocation can be taken, one is.
FairSpec == Spec /\ WF_vars(Next)

(***************************************************************************)
(* The collectors and the item rendering called on their own, on every     *)
(* enumerated reply: call records the function, the variant, the replies   *)
(* it consumed and what it gave back.  A behaviour makes one call.         *)
(***************************************************************************)
FnInit ==
    /\ variant = 3
    /\ method = "POST"
    /\ hpc = "idle"
    /\ status = <<>>
    /\ resBody = {}
    /\ responses = 0
    /\ feedPc = [f \in Feeds |-> "idle"]
    /\ feedResp = [f \in Feeds |-> <<>>]
    /\ feedItems = [f \in Feeds |-> <<>>]
    /\ phPc = "idle"
    /\ phResp = <<>>
    /\ phResult = ""
    /\ mPc = 0
    /\ mResps = <<>>
    /\ mResult = ""
    /\ prompt = <<>>
    /\ completion = <<>>
    /\ brief = <<>>
    /\ emailReq = <<>>
    /\ emailResp = <<>>
    /\ calls = NoCalls
    /\ call = <<>>

CallRec(fn, v, in, out) == [fn |-> fn, v |-> v, in |-> in, out |-> out]

CallFetchAndParseRSS ==
    /\ call = <<>>
    /\ \E v \in Variants, resp \in RssResponses :
          call' = <<CallRec("fetchAndParseRSS", v, resp, fetchAndParseRSS(resp))>>
    /\ UNCHANGED pipelineVars

CallFetchMarketData ==
    /\ call = <<>>
    /\ \E v \in Variants : \E resps \in MarketInputs(v) :
          call' = <<CallRec("fetchMarketData", v, resps, fetchMarketData(v, resps))>>
    /\ UNCHANGED pipelineVars

CallFetchProductHuntPosts ==
    /\ call = <<>>
    /\ \E v \in {w \in Variants : HasProductHunt(w)}, resp \in PhResponses :
          call' = <<CallRec("fetchProductHuntPosts", v, resp,
                            fetchProductHuntPosts(resp))>>
    /\ UNCHANGED pipelineVars

CallRenderItem ==
    /\ call = <<>>
    /\ \E v \in Variants, item \in Items :
          call' = <<CallRec("renderItem", v, item, renderItem(v, item))>>
    /\ UNCHANGED pipelineVars

\* out keeps the rendered lines next to the joined section
CallFeedSummary ==
    /\ call = <<>>
    /\ \E v \in Variants, items \in ItemLists \cup LongLists :
          call' = <<CallRec("feedSummary", v, items,
                            [lines |-> summaryLines(v, items),
                             text |-> feedSummary(v, items)])>>
    /\ UNCHANGED pipelineVars

FnNext ==
    \/ CallFetchAndParseRSS
    \/ CallFetchMarketData
    \/ CallFetchProductHuntPosts
    \/ CallRenderItem
    \/ CallFeedSummary

FnSpec == FnInit /\ [][FnNext]_vars

(***************************************************************************)
(* Properties of the handler (checked under Spec).                         *)
(***************************************************************************)
GenerativeCallThrew == completion # <<>> /\ completion[1].rejects

\* C1: in every variant, when openai.chat.completions.create throws during
\* a POST invocation the handler answers 500 and sendEmail is never invoked:
\* no request goes to the email-delivery API.
C1_GenerativeThrowMeans500NoEmail ==
    GenerativeCallThrew =>
        /\ hpc = "done"
        /\ status = <<500>>
        /\ calls.email = 0
        /\ emailReq = <<>>
        /\ emailResp = <<>>

C1_Witness ==
    /\ method = "POST"
    /\ GenerativeCallThrew
    /\ status = <<500>>
    /\ calls.openai = 1

\* C2: in every variant, an invocation whose method is not POST is answered
\* 405 and makes no downstream call: no feed, market-data or listing fetch,
\* no summarizer call, no email-delivery call.
C2_NonPostIs405WithoutCalls ==
    method # "POST" =>
        /\ calls = NoCalls
        /\ hpc \in {"idle", "done"}
        /\ hpc = "done" => status = <<405>> /\ responses = 1
        /\ \A f \in Feeds : feedPc[f] = "idle"
        /\ phPc = "idle" /\ mPc = 0
        /\ prompt = <<>> /\ emailReq = <<>>

C2_Witness ==
    /\ method = "GET"
    /\ hpc = "done"
    /\ status = <<405>>
    /\ calls = NoCalls

\* the email API accepted the request: a 2xx reply that carries no error
Delivered(resp) == resp.net = "ok" /\ resp.ok /\ ~resp.error

\* the request body carries the document d
CarriesDocument(req, d) ==
    \E pre \in {"", PreOpen} : \E post \in {"", "</pre>"} : req.html = pre \o d \o post

\* C3: for a POST invocation in which the summarizer returns a non-empty
\* document D and the email API accepts the request, the handler answers 200
\* and exactly one delivery call is made, whose body contains D; conversely
\* a 200 is never produced unless exactly one delivery call was made and
\* succeeded.
C3_OkIffOneSuccessfulDelivery ==
    /\ \A d \in {"<h2>Brief</h2>"} :
          (/\ completion # <<>> /\ ~completion[1].rejects
           /\ Len(completion[1].choices) > 0
           /\ completion[1].choices[1] = <<d>>
           /\ emailResp # <<>> /\ Delivered(emailResp[1]))
          => /\ status = <<200>>
             /\ calls.email = 1
             /\ Len(emailReq) = 1
             /\ CarriesDocument(emailReq[1], d)
    /\ status = <<200>> =>
          /\ calls.email = 1
          /\ Len(emailReq) = 1
          /\ emailResp # <<>>
          /\ Delivered(emailResp[1])

\* a reply of the email API that is not a success: the call failed, the
\* status is not 2xx, or a 2xx body carries an error field
DeliveryFailed(resp) == resp.net = "error" \/ ~resp.ok \/ resp.error

\* C4: sendEmail turns every non-success outcome of the email-delivery API
\* into a thrown error that reaches the handler and yields a 500, both for a
\* non-2xx reply and for a 2xx reply whose body carries an error field.
C4_DeliveryFailureMeans500 ==
    (emailResp # <<>> /\ DeliveryFailed(emailResp[1])) => status = <<500>>

\* the generative call succeeded but returned no content
NoContent(c) ==
    /\ ~c.rejects
    /\ \/ Len(c.choices) = 0
       \/ Len(c.choices) > 0 /\ c.choices[1] \in {Undefined, <<"">>}

\* C5: when the generative call succeeds but returns no content (null or
\* empty message content, or no choice carrying content), buildBrief returns
\* exactly "Failed to generate brief" without throwing and the invocation
\* goes on to call sendEmail with that string.
C5_NoContentFallsBackAndSends ==
    (completion # <<>> /\ NoContent(completion[1])) =>
        /\ brief = <<"Failed to generate brief">>
        /\ calls.email = 1
        /\ Len(emailReq) = 1
        /\ CarriesDocument(emailReq[1], "Failed to generate brief")

(***************************************************************************)
(* Properties of the collectors and of the rendering (checked under        *)
(* FnSpec).                                                                *)
(***************************************************************************)
CalledFn(fn) == call # <<>> /\ call[1].fn = fn

\* the greatest and the second greatest date of a series of two or more
LatestDate(series) ==
    CHOOSE d \in {series[i].date : i \in 1..Len(series)} :
        \A i \in 1..Len(series) : series[i].date <= d

PreviousDate(series) ==
    CHOOSE d \in {series[i].date : i \in 1..Len(series)} \ {LatestDate(series)} :
        \A i \in 1..Len(series) :
            series[i].date # LatestDate(series) => series[i].date <= d

CloseOn(series, d) ==
    series[CHOOSE i \in 1..Len(series) : series[i].date = d].close

\* the i-th instrument's fetch failed: at transport level, with a non-2xx
\* status, with a provider error payload, or with a malformed or incomplete
\* payload (series, quote or price field missing)
InstrumentFailed(v, i, r) ==
    \/ r.net = "error"
    \/ ~r.ok
    \/ r.body \in {"notjson", "noseries", "nobitcoin", "noquote"}
    \/ /\ r.body = "series"
       /\ \/ Len(r.series) < 2
          \/ CloseOn(r.series, LatestDate(r.series)) = Undefined
          \/ CloseOn(r.series, PreviousDate(r.series)) = Undefined
    \/ r.body = "bitcoin" /\ (r.usd = Undefined \/ r.change = Undefined)
    \/ r.body = "quote" /\ (r.price = Undefined \/ (i < 3 /\ r.change = Undefined))

\* C6: in every variant fetchMarketData is all-or-nothing: when the fetch of
\* any one instrument fails at transport level, returns a non-2xx status, a
\* provider error payload or a malformed/incomplete payload, the function
\* returns exactly "Market data unavailable", never a partial snapshot or a
\* substitute such as N/A or NaN.
C6_MarketAllOrNothing ==
    CalledFn("fetchMarketData") =>
        LET c == call[1]
        IN  /\ ~c.out.throws
            /\ (\E i \in 1..Len(c.in) : InstrumentFailed(c.v, i, c.in[i]))
                  => c.out.value = "Market data unavailable"

\* a feed fetch that failed: network error, non-2xx status, malformed XML,
\* or a document without rss/channel/item structure
FeedFailed(r) ==
    \/ r.net = "error"
    \/ ~r.ok
    \/ r.body \in {"malformed", "empty", "nonrss", "nochannel", "noitems"}

\* C7: fetchAndParseRSS never throws to its caller and returns an empty item
\* list on every failure: network error, non-2xx status whatever the body,
\* malformed XML, or a document without rss/channel/item structure.
C7_FeedFailureGivesEmpty ==
    CalledFn("fetchAndParseRSS") =>
        LET c == call[1]
        IN  /\ ~c.out.throws
            /\ FeedFailed(c.in) => c.out.value = <<>>

\* a Product Hunt fetch that errored: transport failure, non-2xx reply, or
\* an errors payload in a 2xx reply
ListingErrored(r) == r.net = "error" \/ ~r.ok \/ r.body = "errors"

\* C8: fetchProductHuntPosts never throws to its caller and returns exactly
\* "Product Hunt data unavailable" on every error: transport failure, a
\* non-2xx reply whatever its JSON body, or an errors payload in a 200; a
\* rendered listing is returned only for a 2xx reply without errors field.
C8_ListingErrorGivesPlaceholder ==
    CalledFn("fetchProductHuntPosts") =>
        LET c == call[1]
        IN  /\ ~c.out.throws
            /\ ListingErrored(c.in) => c.out.value = "Product Hunt data unavailable"
            /\ c.out.value # "Product Hunt data unavailable"
                  => c.in.net = "ok" /\ c.in.ok /\ c.in.body # "errors"

\* the i-th reply consumed by the call is a time series of two or more
\* dated observations
SeriesReply(c, i) ==
    /\ i <= Len(c.in)
    /\ c.in[i].net = "ok" /\ c.in[i].ok
    /\ c.in[i].body = "series"
    /\ Len(c.in[i].series) >= 2

LatestClose(c, i) == CloseOn(c.in[i].series, LatestDate(c.in[i].series))
PreviousClose(c, i) == CloseOn(c.in[i].series, PreviousDate(c.in[i].series))

Rose100To110(c, i) ==
    /\ SeriesReply(c, i)
    /\ PreviousClose(c, i) = <<"100.0000">>
    /\ LatestClose(c, i) = <<"110.0000">>

\* C9: in fetchMarketData of daily-brief.ts the displayed changePercent of a
\* time-series instrument is 100 * (latest.close - previous.close) /
\* previous.close over the two most recent dated observations, rounded to 2
\* decimals (100 then 110 gives "10.00"); when previous.close is 0, or a
\* close is not a number, the function returns "Market data unavailable", so
\* the snapshot never shows Infinity or NaN.
C9_ChangePercentOrUnavailable ==
    (CalledFn("fetchMarketData") /\ call[1].v = 3) =>
        LET c == call[1]
        IN  /\ \A i \in 1..2 :
                  (/\ SeriesReply(c, i)
                   /\ \/ PreviousClose(c, i) \in {Undefined, <<"0.0000">>}
                      \/ LatestClose(c, i) = Undefined)
                  => c.out.value = "Market data unavailable"
            /\ (/\ Rose100To110(c, 1)
                /\ Rose100To110(c, 2)
                /\ Len(c.in) = 3
                /\ c.in[3].net = "ok" /\ c.in[3].ok /\ c.in[3].body = "bitcoin"
                /\ c.in[3].usd = <<Fin(50000, 1)>>
                /\ c.in[3].change = <<Fin(5, 4)>>)
               => c.out.value =
                    "Market snapshot: S&P 500 (via SPY): $110.00 (10.00%), "
                    \o "Nasdaq (via QQQ): $110.00 (10.00%), Bitcoin: $50000.00 (1.25%)"

\* what a field shows as when only an absent field gets the placeholder
ShownIfPresent(field, placeholder) ==
    IF field = Undefined THEN placeholder ELSE field[1]

\* what a field shows as when an absent or empty field gets the placeholder
ShownIfNonEmpty(field, placeholder) ==
    IF field = Undefined \/ field = <<"">> THEN placeholder ELSE field[1]

\* C10 (as claimed): in every variant each feed item is rendered as
\* "{title} ({link}) - {description}", where exactly the absent fields are
\* replaced by "No title", "No link", "No description" and every present
\* field is rendered unchanged.
C10_Original_RenderedWithLinkInEveryVariant ==
    CalledFn("renderItem") =>
        LET c == call[1]
        IN  c.out = ShownIfPresent(c.in.title, "No title") \o " ("
                       \o ShownIfPresent(c.in.link, "No link") \o ") - "
                       \o ShownIfPresent(c.in.description, "No description")

\* C10 (amended): in the variants with links (daily-brief.ts and the second
\* handler of part_000) each feed item is rendered as
\* "{title} ({link}) - {description}", in the first handler of part_000 as
\* "{title} - {description}"; a field is replaced by its placeholder exactly
\* when it is absent or its first value is the empty string, and every other
\* field is rendered unchanged.
C10_RenderedPerVariant ==
    CalledFn("renderItem") =>
        LET c == call[1]
            t == ShownIfNonEmpty(c.in.title, "No title")
            l == ShownIfNonEmpty(c.in.link, "No link")
            d == ShownIfNonEmpty(c.in.description, "No description")
        IN  c.out = IF c.v = 1 THEN t \o " - " \o d
                    ELSE t \o " (" \o l \o ") - " \o d

C10_Witness ==
    /\ CalledFn("renderItem")
    /\ call[1].v = 3
    /\ call[1].in = [title |-> Undefined, link |-> <<"L">>, description |-> <<"">>]
    /\ call[1].out = "No title (L) - No description"

Min(a, b) == IF a < b THEN a ELSE b

RECURSIVE LinesText(_)
\* the text whose lines are the given ones
LinesText(lines) ==
    IF lines = <<>> THEN ""
    ELSE IF Len(lines) = 1 THEN lines[1]
    ELSE LinesText(SubSeq(lines, 1, Len(lines) - 1)) \o "\n" \o lines[Len(lines)]

\* C11: for every feed that returns K items, the rendered section of that
\* feed in the prompt has exactly min(K, 10) lines, which are the renderings
\* of the first min(K, 10) items in the feed's source order: no reordering,
\* no duplicate, no item beyond the tenth.
C11_SectionIsFirstTenInOrder ==
    CalledFn("feedSummary") =>
        LET c == call[1]
            k == Len(c.in)
        IN  /\ Len(c.out.lines) = Min(k, 10)
            /\ \A i \in 1..Len(c.out.lines) : c.out.lines[i] = renderItem(c.v, c.in[i])
            /\ c.out.text = LinesText(c.out.lines)

C11_Witness ==
    /\ CalledFn("feedSummary")
    /\ call[1].v = 3
    /\ Len(call[1].in) = 12
    /\ call[1].in[1].title = <<"T1">>
    /\ Len(call[1].out.lines) = 10
    /\ call[1].out.lines[1] = "T1 (L1) - D1"
    /\ call[1].out.lines[10] = "T10 (L10) - D10"

(***************************************************************************)
(* Properties of the fan-out and of the invocation as a whole (checked     *)
(* under Spec and FairSpec).                                               *)
(***************************************************************************)
\* the fetch of a collector failed in this invocation
FeedFetchFailed(f) == feedResp[f] # <<>> /\ FeedFailed(feedResp[f][1])
MarketFetchFailed == \E i \in 1..Len(mResps) : InstrumentFailed(variant, i, mResps[i])
ListingFetchFailed == phResp # <<>> /\ ListingErrored(phResp[1])

\* the section of the prompt a feed fills
FeedSection(p, f) ==
    CASE f = "ai" -> p.ai
      [] f = "yc" -> p.yc
      [] f = "world" -> p.world

\* the summarizer gave a completion with a first choice
SummarizerSucceeded ==
    /\ completion # <<>>
    /\ ~completion[1].rejects
    /\ Len(completion[1].choices) > 0

\* C12: no failure of a collector can fail the invocation: for every
\* combination of failures of the feed fetches, the market-data fetch and
\* the listing fetch, the Promise.all join resolves, the summarizer is
\* called exactly once with a prompt in which each failed section is empty
\* or its placeholder, and if the summarizer and the email API then succeed
\* the handler answers 200.
C12_CollectorFailuresDegradeSections ==
    method = "POST" =>
        /\ ~AnyRejected
        /\ calls.openai <= 1
        /\ hpc \in {"summarizing", "sending", "done"}
              => calls.openai = 1 /\ prompt # <<>>
        /\ prompt # <<>> =>
              /\ \A f \in Feeds : FeedFetchFailed(f) => FeedSection(prompt[1], f) = ""
              /\ MarketFetchFailed => prompt[1].markets = "Market data unavailable"
              /\ (HasProductHunt(variant) /\ ListingFetchFailed)
                    => prompt[1].ph = <<"Product Hunt data unavailable">>
        /\ (SummarizerSucceeded /\ emailResp # <<>> /\ Delivered(emailResp[1]))
              => status = <<200>>

\* every collector buildBrief started has settled
AllSettled ==
    /\ \A f \in Feeds : feedPc[f] \in {"done", "rejected"} /\ feedResp[f] # <<>>
    /\ HasProductHunt(variant) => phPc \in {"done", "rejected"} /\ phResp # <<>>
    /\ mPc \in {4, 5}

\* the prompt the replies seen by the collectors determine
PromptOfReplies ==
    [ai |-> feedSummary(variant, fetchAndParseRSS(feedResp["ai"][1]).value),
     yc |-> feedSummary(variant, fetchAndParseRSS(feedResp["yc"][1]).value),
     world |-> feedSummary(variant, fetchAndParseRSS(feedResp["world"][1]).value),
     ph |-> IF HasProductHunt(variant)
            THEN <<fetchProductHuntPosts(phResp[1]).value>> ELSE <<>>,
     hn |-> IF HasProductHunt(variant)
            THEN <<feedSummary(variant, fetchAndParseRSS(feedResp["yc"][1]).value)>>
            ELSE <<>>,
     markets |-> fetchMarketData(variant, mResps).value]

\* C13: the collectors started by buildBrief run concurrently and the
\* summarizer is called only after all of them have settled; for fixed
\* replies of the external sources the prompt sent to the summarizer is the
\* same for every interleaving and completion order of the sibling fetches:
\* it is a function of the replies alone, each collector's result filling
\* only its own sections.
C13_PromptAfterAllSettledAndOrderFree ==
    /\ (hpc = "building" /\ ~AllSettled) => (prompt = <<>> /\ calls.openai = 0)
    /\ calls.openai > 0 => AllSettled
    /\ prompt # <<>> => (AllSettled /\ prompt[1] = PromptOfReplies)

\* the prompt has been built after all collectors settled, one feed having
\* failed and another having returned an item
C13_Witness ==
    /\ prompt # <<>>
    /\ calls.openai = 1
    /\ feedResp["ai"] = <<[net |-> "error"]>>
    /\ feedResp["world"] # <<>> /\ feedResp["world"][1].net = "ok"
    /\ feedResp["world"][1].body = "items"
    /\ prompt[1].ai = ""
    /\ prompt[1].world = "T (L) - D"
    /\ Len(mResps) = 3

\* a collector listed later in Promise.all settles before one listed earlier
C13_OutOfOrderReached ==
    /\ hpc = "building"
    /\ mPc = 4
    /\ feedPc["ai"] = "fetching"
    /\ feedPc["world"] = "done"

\* the state of the invocation in the specification's state machine
Phase ==
    CASE hpc = "idle" -> "Idle"
      [] hpc \in {"building", "summarizing", "sending"} -> "Running"
      [] hpc = "done" /\ status = <<200>> -> "Succeeded"
      [] OTHER -> "Failed"

Terminal == Phase \in {"Succeeded", "Failed"}

\* the summarizer raised: the completion call rejected, or its reply has no
\* first choice to read the content of
SummarizerRaised ==
    completion # <<>> /\ (completion[1].rejects \/ Len(completion[1].choices) = 0)

\* the notifier raised: the delivery fetch rejected or was answered non-2xx
NotifierRaised ==
    emailResp # <<>> /\ (emailResp[1].net = "error" \/ ~emailResp[1].ok)

\* what holds of the response in every state of a POST invocation
C14_ResponseMatchesOutcome ==
    method = "POST" =>
        /\ responses <= 1
        /\ Terminal <=> responses = 1
        /\ ~Terminal => (status = <<>> /\ resBody = {})
        /\ Terminal => status \in {<<200>>, <<500>>}
        /\ (prompt # <<>> /\ SummarizerSucceeded
             /\ emailResp # <<>> /\ Delivered(emailResp[1]))
              => /\ Phase = "Succeeded"
                 /\ resBody = {"success", "message", "timestamp"}
        /\ (SummarizerRaised \/ NotifierRaised)
              => /\ Phase = "Failed"
                 /\ status = <<500>>
                 /\ resBody = {"error", "details"}

\* the order of the phases, and no step from a terminal state
C14_PhaseStep ==
    method = "POST" =>
        /\ ~Terminal
        /\ Phase = "Idle" => Phase' = "Running"
        /\ Phase = "Running" => Phase' \in {"Running", "Succeeded", "Failed"}

\* C14: every POST invocation follows Idle -> Running -> {Succeeded, Failed}:
\* provided each external call eventually settles, the invocation eventually
\* reaches exactly one terminal state and sends exactly one HTTP response,
\* which is 200 with success/message/timestamp when build, summarize and
\* deliver all succeeded, and 500 with error/details when the summarizer or
\* the notifier raised; no step runs after the terminal state is reached.
C14_Lifecycle ==
    /\ []C14_ResponseMatchesOutcome
    /\ [][C14_PhaseStep]_vars
    /\ (method = "POST") ~> (Terminal /\ responses = 1)

\* a POST invocation has run through to Succeeded
C14_Witness ==
    /\ method = "POST"
    /\ Phase = "Succeeded"
    /\ responses = 1
    /\ resBody = {"success", "message", "timestamp"}
    /\ SummarizerSucceeded
    /\ Delivered(emailResp[1])

\* a POST invocation has ended in Failed because the notifier raised
C14_FailedReached ==
    /\ method = "POST"
    /\ Phase = "Failed"
    /\ NotifierRaised
    /\ resBody = {"error", "details"}

====
